---- MODULE Spec2Model ----
(***************************************************************************)
(* Model of the event loop of src/src/main.rs: a gossip node that buffers  *)
(* signed transactions in a mempool, validates a batch when the mempool    *)
(* holds exactly ten entries, votes, records the votes of its peers and,   *)
(* at the head of every loop iteration, writes a block once every known    *)
(* peer has voted.                                                         *)
(*                                                                         *)
(* Spec     one node against an arbitrary messaging substrate: the inputs  *)
(*          of every handler (stdin lines, message identifiers, sources,   *)
(*          publish and file-write results, connections) are chosen by the *)
(*          environment.                                                   *)
(* SpecNet  two nodes of the program, connected to each other, exchanging  *)
(*          the messages they publish; the substrate delivers every        *)
(*          message once, in any order.                                    *)
(***************************************************************************)
EXTENDS Integers, Sequences, FiniteSets, Bags, TLC

VARIABLES
    nodes,       \* node id -> the locals of main(): mempool, voters, block_height, ...
    net,         \* <<from, to>> -> per topic, the bag of messages `from` published that `to` has not received
    stdin_left,  \* node id -> lines still to be typed (SpecNet only)
    last         \* what the last step did (observation of the step; no handler reads it)

vars == <<nodes, net, stdin_left, last>>

(***************************************************************************)
(* Bounds and program constants                                            *)
(***************************************************************************)
BATCH_SIZE == 10

\* Spec: transactions appended to the mempool over a run
MaxTx == 20

\* Spec: appended transactions whose signature does not verify
MaxInvalid == 1

\* SpecNet: lines typed at each node
MaxLocal == 10

NodeIds == {"n1", "n2"}

\* Spec: the remote peers the substrate may connect and name as message sources
PeerIds == {"p1", "p2"}

\* The payload of a line. The handlers never look into a payload: they sign
\* it, publish it, store it and pass it to verify, so one value stands for all.
Lines == {"a"}

(***************************************************************************)
(* Keys, signatures, message identifiers                                   *)
(***************************************************************************)
\* keypair.public()
PublicKey(n) == [owner |-> n]

\* keypair.sign(data): ed25519 is deterministic, the signature is a function
\* of the signer and the signed bytes
Sign(n, data) == [signer |-> n, msg |-> data]

\* public_key.verify(data, signature)
verify(public_key, data, signature) ==
    signature = [signer |-> public_key.owner, msg |-> data]

\* 32 bytes that are not the encoding of a curve point
InvalidPoint == [owner |-> "invalid_point"]

\* signature bytes that were not produced by any key over any data
TamperedSignature == [signer |-> "nobody", msg |-> "tampered"]

\* ed25519::PublicKey::decode(bytes).is_ok()
decode_ok(public_key_bytes) == public_key_bytes.owner # "invalid_point"

\* message_id_fn: the node's public key (32 bytes) followed by the node's
\* signature (64 bytes) of the message data
message_id_fn(n, data) ==
    [len |-> 96, public_key_bytes |-> PublicKey(n), signature |-> Sign(n, data)]

\* The identifiers the substrate may hand to the message handler of node n in
\* Spec: the one message_id_fn computes, one whose signature part does not
\* verify, one whose first 32 bytes decode to no key, one shorter than 32 bytes.
\* The handler passes a decoded key to verify and stores it, nothing else, so
\* the key of a well-formed identifier is kept to the one message_id_fn puts
\* there; what varies is whether the signature verifies under it.
InboundIds(n, data) ==
    { message_id_fn(n, data),
      [len |-> 96, public_key_bytes |-> PublicKey(n), signature |-> TamperedSignature],
      [len |-> 96, public_key_bytes |-> InvalidPoint, signature |-> Sign(n, data)],
      [len |-> 31, public_key_bytes |-> InvalidPoint, signature |-> TamperedSignature] }

IdKind(id) ==
    IF id.len < 32 THEN "short"
    ELSE IF ~decode_ok(id.public_key_bytes) THEN "badkey"
    ELSE "ok"

Transaction(public_key, signature, data) ==
    [public_key |-> public_key, signature |-> signature, data |-> data]

IsValid(transaction) ==
    verify(transaction.public_key, transaction.data, transaction.signature)

\* format!("{block_height}{peer_id_string}")
vote_message(block_height, local_peer_id) ==
    [height |-> block_height, peer |-> local_peer_id]

(***************************************************************************)
(* Node state                                                              *)
(***************************************************************************)
InitNode(peers) ==
    [ mempool      |-> << >>,
      block_height |-> 1,
      voters       |-> {},
      all_peers    |-> peers,   \* gossipsub.all_peers()
      blocks       |-> << >>,   \* height -> contents of block_<height>.txt
      votes_cast   |-> << >>,   \* vote payloads handed to publish(vote_topic, ..)
      validations  |-> << >>,   \* the block_height at each run of the batch validation
      pc           |-> "check", \* "check": at the loop head; "select": waiting in select!
      panic        |-> "none" ] \* the call that panicked, once pc = "panicked"

Panic(st, why) == [st EXCEPT !.pc = "panicked", !.panic = why]

NoLast ==
    [ node |-> "none", ev |-> "init", finalized |-> FALSE, validated |-> FALSE,
      published |-> << >>, topic |-> "none", id_kind |-> "none",
      sig_ok |-> FALSE, peer |-> "none", pub_ok |-> TRUE,
      height |-> 0, author |-> "none" ]  \* of an inbound vote: what its payload declares

\* transactions appended so far: each completed round drained BATCH_SIZE of them
Appended(st) == Len(st.mempool) + BATCH_SIZE * (st.block_height - 1)

InvalidIn(seq) == Cardinality({i \in 1..Len(seq) : ~IsValid(seq[i])})

RECURSIVE InvalidInBlocks(_, _)
InvalidInBlocks(blocks, hs) ==
    IF hs = {} THEN 0
    ELSE LET h == CHOOSE x \in hs : TRUE
         IN InvalidIn(blocks[h]) + InvalidInBlocks(blocks, hs \ {h})

InvalidAppended(st) == InvalidIn(st.mempool) + InvalidInBlocks(st.blocks, DOMAIN st.blocks)

(***************************************************************************)
(* The loop head: round-completion check and finalization                  *)
(***************************************************************************)
\* Quorum without the `number_of_peers > 0` guard
Quorum_no_guard(st) ==
    Cardinality(st.voters) = Cardinality(st.all_peers)

\* voters.len() == number_of_peers && number_of_peers > 0
Quorum(st) ==
    LET number_of_peers == Cardinality(st.all_peers)
    IN Cardinality(st.voters) = number_of_peers /\ number_of_peers > 0

\* a drain that takes the ten newest entries instead of the ten oldest
drain_last_ten(mempool) ==
    [ first_ten_trx |-> SubSeq(mempool, Len(mempool) - 9, Len(mempool)),
      rest          |-> SubSeq(mempool, 1, Len(mempool) - 10) ]

\* a drain that takes ten entries for the block and removes one more
drain_one_too_many(mempool) ==
    [ first_ten_trx |-> SubSeq(mempool, 1, 10),
      rest          |-> SubSeq(mempool, 12, Len(mempool)) ]

\* mempool.drain(..10).collect(): the drained entries and what is left.
\* Called only with at least ten entries (drain panics otherwise).
drain_first_ten(mempool) ==
    [ first_ten_trx |-> SubSeq(mempool, 1, 10),
      rest          |-> SubSeq(mempool, 11, Len(mempool)) ]

\* a file name that does not depend on the height
write_block_fixed_name(blocks, block_height, first_ten_trx) ==
    (1 :> first_ten_trx) @@ blocks

\* fs::write(format!("block_{block_height}.txt"), ..): creates or truncates
write_block(blocks, block_height, first_ten_trx) ==
    (block_height :> first_ten_trx) @@ blocks

\* a clear() that was forgotten
clear_skipped(voters) == voters

\* voters.clone().lock().unwrap().clear()
clear(voters) == {}

\* an increment that skips a height
next_block_height_by_two(block_height) == block_height + 2

\* block_height += 1
next_block_height(block_height) == block_height + 1

\* a write error that is logged and skipped, the round going on
write_failed_logged(st, rest) ==
    [st EXCEPT !.mempool = rest,
               !.voters = clear(@),
               !.block_height = next_block_height(@),
               !.pc = "select"]

\* fs::write(..).unwrap() on Err: the panic comes after the drain and before
\* voters.clear() and block_height += 1
write_failed(st, rest) == Panic([st EXCEPT !.mempool = rest], "write")

\* One pass over the head of `loop`, up to select!. write_ok is the result of
\* fs::write. `finalized`: the branch ran to its end (block_height += 1).
RoundCheck(st, write_ok) ==
    IF Quorum(st)
    THEN IF Len(st.mempool) < 10
         THEN [st |-> Panic(st, "drain"), finalized |-> FALSE]
         ELSE LET d == drain_first_ten(st.mempool)
              IN IF ~write_ok
                 THEN [st |-> write_failed(st, d.rest), finalized |-> FALSE]
                 ELSE [st |-> [st EXCEPT !.mempool = d.rest,
                                         !.blocks = write_block(@, st.block_height,
                                                                d.first_ten_trx),
                                         !.voters = clear(@),
                                         !.block_height = next_block_height(@),
                                         !.pc = "select"],
                       finalized |-> TRUE]
    ELSE [st |-> [st EXCEPT !.pc = "select"], finalized |-> FALSE]

(***************************************************************************)
(* Batch validation and vote                                               *)
(***************************************************************************)
\* a count that skips the signature check
count_unverified(mempool) == Len(mempool)

\* for transaction in mempool.iter() { if is_valid { correct_transaction_num += 1 } }
correct_transaction_num(mempool) ==
    Cardinality({i \in 1..Len(mempool) : IsValid(mempool[i])})

\* a level check in place of the equality
batch_reached(mempool) == Len(mempool) >= 10

\* mempool.lock().unwrap().len() == 10, read right after the push
batch_full(mempool) == Len(mempool) = 10

Message(topic, data, source) == [topic |-> topic, data |-> data, source |-> source]

\* A handler's result: the node afterwards, the messages the substrate accepted
\* for publication, and whether the batch validation ran.
Result(st, published, validated) ==
    [st |-> st, published |-> published, validated |-> validated]

\* local-input branch: if mempool.len() == 10 { validate; vote if all ten are valid }
validate_local(n, st, vote_pub_ok) ==
    IF batch_full(st.mempool)
    THEN LET checked == [st EXCEPT !.validations = Append(@, st.block_height)]
         IN IF correct_transaction_num(st.mempool) = 10
            THEN LET vote == vote_message(st.block_height, n)
                 IN Result([checked EXCEPT !.votes_cast = Append(@, vote)],
                           IF vote_pub_ok THEN <<Message("vote", vote, n)>> ELSE << >>,
                           TRUE)
            ELSE Result(checked, << >>, TRUE)
    ELSE Result(st, << >>, FALSE)

\* inbound-transaction branch: the same check, duplicated in the source
validate_inbound(n, st, vote_pub_ok) ==
    IF batch_full(st.mempool)
    THEN LET checked == [st EXCEPT !.validations = Append(@, st.block_height)]
         IN IF correct_transaction_num(st.mempool) = 10
            THEN LET vote == vote_message(st.block_height, n)
                 IN Result([checked EXCEPT !.votes_cast = Append(@, vote)],
                           IF vote_pub_ok THEN <<Message("vote", vote, n)>> ELSE << >>,
                           TRUE)
            ELSE Result(checked, << >>, TRUE)
    ELSE Result(st, << >>, FALSE)

(***************************************************************************)
(* Event handlers (the arms of select!)                                    *)
(***************************************************************************)
\* a handler that keeps the line only when the substrate accepted it
OnStdinLine_publish_first(n, st, line, tx_pub_ok, vote_pub_ok) ==
    IF tx_pub_ok
    THEN LET pushed == [st EXCEPT !.mempool =
                            Append(@, Transaction(PublicKey(n), Sign(n, line), line))]
             r == validate_local(n, pushed, vote_pub_ok)
         IN Result(r.st, <<Message("transaction", line, n)>> \o r.published, r.validated)
    ELSE Result(st, << >>, FALSE)

\* line = stdin.select_next_some(): push the signed line, publish it, validate
OnStdinLine(n, st, line, tx_pub_ok, vote_pub_ok) ==
    LET pushed == [st EXCEPT !.mempool =
                       Append(@, Transaction(PublicKey(n), Sign(n, line), line))]
        r == validate_local(n, pushed, vote_pub_ok)
    IN Result(r.st,
              (IF tx_pub_ok THEN <<Message("transaction", line, n)>> ELSE << >>)
                  \o r.published,
              r.validated)

\* an insert that does not look at the signature
record_vote_unchecked(st, peer_id, public_key, message, signature) ==
    [st EXCEPT !.voters = @ \cup {peer_id}]

\* voters.insert(peer_id) if the vote's signature verifies
record_vote(st, peer_id, public_key, message, signature) ==
    IF verify(public_key, message.data, signature)
    THEN [st EXCEPT !.voters = @ \cup {peer_id}]
    ELSE st

\* gossipsub::Event::Message { propagation_source: peer_id, message_id: id, message }
OnGossipMessage(n, st, peer_id, id, message, vote_pub_ok) ==
    IF id.len < 32
    THEN Result(Panic(st, "split_at"), << >>, FALSE)
    ELSE IF ~decode_ok(id.public_key_bytes)
    THEN Result(Panic(st, "decode"), << >>, FALSE)
    ELSE LET public_key == id.public_key_bytes
             signature == id.signature
             st1 == IF message.topic = "vote"
                    THEN record_vote(st, peer_id, public_key, message, signature)
                    ELSE st
         IN IF message.topic = "transaction"
            THEN validate_inbound(
                     n,
                     [st1 EXCEPT !.mempool =
                          Append(@, Transaction(public_key, signature, message.data))],
                     vote_pub_ok)
            ELSE Result(st1, << >>, FALSE)

\* a handler that waits for the next event without passing the loop head
Loop_skip_head(st) == st

\* back to the head of `loop`, unless the handler panicked
Loop(st) == IF st.pc = "panicked" THEN st ELSE [st EXCEPT !.pc = "check"]

(***************************************************************************)
(* Spec: one node, the substrate as environment                            *)
(***************************************************************************)
Init ==
    /\ nodes = [n \in {"n1"} |-> InitNode({})]
    /\ net = << >>
    /\ stdin_left = << >>
    /\ last = NoLast

SetNode(n, st) == nodes' = [nodes EXCEPT ![n] = st]

\* loop head; fs::write may fail
Check(n) ==
    /\ nodes[n].pc = "check"
    /\ \E write_ok \in BOOLEAN :
          LET r == RoundCheck(nodes[n], write_ok)
          IN /\ SetNode(n, r.st)
             /\ last' = [NoLast EXCEPT !.node = n, !.ev = "check",
                                       !.finalized = r.finalized]
    /\ UNCHANGED <<net, stdin_left>>

\* a line arrives on stdin; each publish may be refused by the substrate
StdinLine(n) ==
    /\ nodes[n].pc = "select"
    /\ Appended(nodes[n]) < MaxTx
    /\ \E line \in Lines, tx_pub_ok \in BOOLEAN, vote_pub_ok \in BOOLEAN :
          LET r == OnStdinLine(n, nodes[n], line, tx_pub_ok, vote_pub_ok)
          IN /\ SetNode(n, Loop(r.st))
             /\ last' = [NoLast EXCEPT !.node = n, !.ev = "stdin",
                                       !.validated = r.validated,
                                       !.published = r.published,
                                       !.pub_ok = tx_pub_ok]
    /\ UNCHANGED <<net, stdin_left>>

\* mdns::Event::Discovered: add_explicit_peer only asks gossipsub to dial the
\* peer; all_peers() changes when the connection is established
MdnsDiscovered(n) ==
    /\ nodes[n].pc = "select"
    /\ \E peer_id \in PeerIds :
          /\ SetNode(n, Loop(nodes[n]))
          /\ last' = [NoLast EXCEPT !.node = n, !.ev = "discovered", !.peer = peer_id]
    /\ UNCHANGED <<net, stdin_left>>

\* mdns::Event::Expired: remove_explicit_peer; voters is not touched
MdnsExpired(n) ==
    /\ nodes[n].pc = "select"
    /\ \E peer_id \in PeerIds :
          /\ SetNode(n, Loop(nodes[n]))
          /\ last' = [NoLast EXCEPT !.node = n, !.ev = "expired", !.peer = peer_id]
    /\ UNCHANGED <<net, stdin_left>>

\* SwarmEvent::NewListenAddr
NewListenAddr(n) ==
    /\ nodes[n].pc = "select"
    /\ SetNode(n, Loop(nodes[n]))
    /\ last' = [NoLast EXCEPT !.node = n, !.ev = "listen"]
    /\ UNCHANGED <<net, stdin_left>>

\* any other swarm event (the `_ => {}` arm): a gossipsub peer connected
ConnectionEstablished(n) ==
    /\ nodes[n].pc = "select"
    /\ \E peer_id \in PeerIds \ nodes[n].all_peers :
          /\ SetNode(n, Loop([nodes[n] EXCEPT !.all_peers = @ \cup {peer_id}]))
          /\ last' = [NoLast EXCEPT !.node = n, !.ev = "connected", !.peer = peer_id]
    /\ UNCHANGED <<net, stdin_left>>

\* any other swarm event (the `_ => {}` arm): a gossipsub peer disconnected
ConnectionClosed(n) ==
    /\ nodes[n].pc = "select"
    /\ \E peer_id \in nodes[n].all_peers :
          /\ SetNode(n, Loop([nodes[n] EXCEPT !.all_peers = @ \ {peer_id}]))
          /\ last' = [NoLast EXCEPT !.node = n, !.ev = "disconnected", !.peer = peer_id]
    /\ UNCHANGED <<net, stdin_left>>

\* the payloads the substrate may deliver on each topic
InboundData(topic) ==
    IF topic = "transaction" THEN Lines
    ELSE {vote_message(h, p) : h \in 1..2, p \in PeerIds}

\* a message arrives from a connected peer (the propagation source), with any
\* identifier; a vote may have been authored by another peer and relayed
GossipMessage(n) ==
    /\ nodes[n].pc = "select"
    /\ \E peer_id \in nodes[n].all_peers, topic \in {"transaction", "vote"},
          vote_pub_ok \in BOOLEAN :
        \E data \in InboundData(topic) :
        \E id \in InboundIds(n, data) :
          LET message == Message(topic, data,
                                 IF topic = "vote" THEN data.peer ELSE peer_id)
              r == OnGossipMessage(n, nodes[n], peer_id, id, message, vote_pub_ok)
              sig_ok == IdKind(id) = "ok" /\ verify(id.public_key_bytes, data, id.signature)
          IN /\ (topic = "transaction" /\ IdKind(id) = "ok") =>
                    /\ Appended(nodes[n]) < MaxTx
                    /\ ~sig_ok => InvalidAppended(nodes[n]) < MaxInvalid
             /\ SetNode(n, Loop(r.st))
             /\ last' = [NoLast EXCEPT !.node = n, !.ev = "message",
                                       !.validated = r.validated,
                                       !.published = r.published,
                                       !.topic = topic,
                                       !.id_kind = IdKind(id),
                                       !.sig_ok = sig_ok,
                                       !.peer = peer_id,
                                       !.height = IF topic = "vote" THEN data.height ELSE 0,
                                       !.author = IF topic = "vote" THEN message.source
                                                  ELSE "none"]
    /\ UNCHANGED <<net, stdin_left>>

Next ==
    \/ \E n \in DOMAIN nodes : Check(n)
    \/ \E n \in DOMAIN nodes : StdinLine(n)
    \/ \E n \in DOMAIN nodes : MdnsDiscovered(n)
    \/ \E n \in DOMAIN nodes : MdnsExpired(n)
    \/ \E n \in DOMAIN nodes : NewListenAddr(n)
    \/ \E n \in DOMAIN nodes : ConnectionEstablished(n)
    \/ \E n \in DOMAIN nodes : ConnectionClosed(n)
    \/ \E n \in DOMAIN nodes : GossipMessage(n)

Spec == Init /\ [][Next]_vars

(***************************************************************************)
(* SpecNet: two nodes of the program, each the other's only peer           *)
(***************************************************************************)
Topics == {"transaction", "vote"}

Channels == {c \in NodeIds \X NodeIds : c[1] # c[2]}

InitNet ==
    /\ nodes = [n \in NodeIds |-> InitNode(NodeIds \ {n})]
    /\ net = [c \in Channels |-> [t \in Topics |-> EmptyBag]]
    /\ stdin_left = [n \in NodeIds |-> MaxLocal]
    /\ last = NoLast

RECURSIVE OnTopic(_, _)
OnTopic(published, topic) ==
    IF published = << >> THEN EmptyBag
    ELSE (IF Head(published).topic = topic THEN SetToBag({Head(published)}) ELSE EmptyBag)
             (+) OnTopic(Tail(published), topic)

\* gossipsub.publish: the message is sent to every connected peer
Broadcast(network, from, peers, published) ==
    [c \in DOMAIN network |->
        IF c[1] = from /\ c[2] \in peers
        THEN [t \in Topics |-> network[c][t] (+) OnTopic(published, t)]
        ELSE network[c]]

\* loop head; the block file is written
NetCheck(n) ==
    /\ nodes[n].pc = "check"
    /\ LET r == RoundCheck(nodes[n], TRUE)
       IN /\ SetNode(n, r.st)
          /\ last' = [NoLast EXCEPT !.node = n, !.ev = "check",
                                    !.finalized = r.finalized]
    /\ UNCHANGED <<net, stdin_left>>

\* a line is typed at node n and published to its peer
NetStdinLine(n) ==
    /\ nodes[n].pc = "select"
    /\ stdin_left[n] > 0
    /\ \E line \in Lines :
          LET r == OnStdinLine(n, nodes[n], line, TRUE, TRUE)
          IN /\ SetNode(n, Loop(r.st))
             /\ net' = Broadcast(net, n, nodes[n].all_peers, r.published)
             /\ last' = [NoLast EXCEPT !.node = n, !.ev = "stdin",
                                       !.validated = r.validated,
                                       !.published = r.published]
    /\ stdin_left' = [stdin_left EXCEPT ![n] = @ - 1]

\* a message `from` published reaches `to`, whose gossipsub computes the
\* message identifier with its own message_id_fn
NetDeliver(from, to) ==
    /\ nodes[to].pc = "select"
    /\ \E topic \in Topics :
        \E message \in BagToSet(net[<<from, to>>][topic]) :
          LET id == message_id_fn(to, message.data)
              r == OnGossipMessage(to, nodes[to], from, id, message, TRUE)
              received == [net EXCEPT ![<<from, to>>][topic] = @ (-) SetToBag({message})]
          IN /\ SetNode(to, Loop(r.st))
             /\ net' = Broadcast(received, to, nodes[to].all_peers, r.published)
             /\ last' = [NoLast EXCEPT !.node = to, !.ev = "message",
                                       !.validated = r.validated,
                                       !.published = r.published,
                                       !.topic = message.topic,
                                       !.id_kind = IdKind(id),
                                       !.sig_ok = verify(id.public_key_bytes, message.data,
                                                         id.signature),
                                       !.peer = from,
                                       !.height = IF topic = "vote" THEN message.data.height
                                                  ELSE 0,
                                       !.author = IF topic = "vote" THEN message.source
                                                  ELSE "none"]
    /\ UNCHANGED stdin_left

NextNet ==
    \/ \E n \in DOMAIN nodes : NetCheck(n)
    \/ \E n \in DOMAIN nodes : NetStdinLine(n)
    \/ \E c \in DOMAIN net : NetDeliver(c[1], c[2])

SpecNet == InitNet /\ [][NextNet]_vars

\* SpecNet with the scheduling the program runs under: a node that can take a
\* step (pass the loop head, read a waiting line, receive a waiting message)
\* takes one. Every event consumes a line or a message and the loop head is
\* passed once per event, so every behaviour of NextNet is finite: under this
\* condition every line is read and every message published is delivered.
Fairness == WF_vars(NextNet)

SpecLive == InitNet /\ [][NextNet]_vars /\ Fairness

(***************************************************************************)
(* SpecLocks: one node, statement by statement, with the mutexes that are  *)
(* locked while each statement runs. A MutexGuard created in the condition *)
(* of an `if` or in an expression statement is dropped at the end of that  *)
(* condition or statement; one created in the iterator expression of a     *)
(* `for` lives until the loop ends.                                        *)
(***************************************************************************)
\* the event the running arm of select! is handling
NoEvent ==
    [ arm |-> "none", topic |-> "none", peer_id |-> "none",
      id |-> [len |-> 0, public_key_bytes |-> InvalidPoint, signature |-> TamperedSignature],
      data |-> "none" ]

\* the locals of main() plus those of the statement being executed
InitLockNode(peers) ==
    InitNode(peers) @@
    [ event         |-> NoEvent,
      first_ten_trx |-> << >>,
      i             |-> 0,    \* position of the `for` over the mempool
      correct       |-> 0 ]   \* correct_transaction_num

InitLocks ==
    /\ nodes = [n \in {"n1"} |-> InitLockNode(PeerIds)]
    /\ net = << >>
    /\ stdin_left = << >>
    /\ last = [locks |-> {}] @@ NoLast

\* node n ran one statement: op is what it did, locks the mutexes locked meanwhile
Ran(n, st, op, locks) ==
    /\ nodes' = [nodes EXCEPT ![n] = st]
    /\ last' = [locks |-> locks] @@ [NoLast EXCEPT !.node = n, !.ev = op]
    /\ UNCHANGED <<net, stdin_left>>

\* the arm is done: back to the loop head
Done(st) == [st EXCEPT !.pc = "check", !.event = NoEvent]

\* if voters.lock().unwrap().len() == number_of_peers && number_of_peers > 0
QuorumTest(n) ==
    /\ nodes[n].pc = "check"
    /\ Ran(n, [nodes[n] EXCEPT !.pc = IF Quorum(nodes[n]) THEN "drain" ELSE "select"],
           "len", {"voters"})

\* let first_ten_trx = mempool.lock().unwrap().drain(..10).collect();
DrainStmt(n) ==
    /\ nodes[n].pc = "drain"
    /\ IF Len(nodes[n].mempool) < 10
       THEN Ran(n, Panic(nodes[n], "drain"), "drain", {"mempool"})
       ELSE LET d == drain_first_ten(nodes[n].mempool)
            IN Ran(n, [nodes[n] EXCEPT !.mempool = d.rest,
                                       !.first_ten_trx = d.first_ten_trx,
                                       !.pc = "write"],
                   "drain", {"mempool"})

\* fs::write(file_name, file_contents).unwrap();
WriteStmt(n) ==
    /\ nodes[n].pc = "write"
    /\ \E write_ok \in BOOLEAN :
          IF write_ok
          THEN Ran(n, [nodes[n] EXCEPT !.blocks = write_block(@, nodes[n].block_height,
                                                              nodes[n].first_ten_trx),
                                       !.first_ten_trx = << >>,
                                       !.pc = "clear"],
                   "fs_write", {})
          ELSE Ran(n, Panic(nodes[n], "write"), "fs_write", {})

\* voters.clone().lock().unwrap().clear(); block_height += 1;
ClearStmt(n) ==
    /\ nodes[n].pc = "clear"
    /\ Ran(n, [nodes[n] EXCEPT !.voters = clear(@),
                               !.block_height = next_block_height(@),
                               !.pc = "select"],
           "clear", {"voters"})

\* stdin arm: mempool.lock().unwrap().push(Transaction { .. })
StdinPush(n) ==
    /\ nodes[n].pc = "select"
    /\ Appended(nodes[n]) < MaxTx
    /\ \E line \in Lines :
          Ran(n, [nodes[n] EXCEPT
                     !.mempool = Append(@, Transaction(PublicKey(n), Sign(n, line), line)),
                     !.event = [NoEvent EXCEPT !.arm = "stdin", !.topic = "transaction",
                                               !.data = line],
                     !.pc = "publish"],
              "push", {"mempool"})

\* stdin arm: gossipsub.publish(transactions_topic, ..), an Err is printed
PublishStmt(n) ==
    /\ nodes[n].pc = "publish"
    /\ Ran(n, [nodes[n] EXCEPT !.pc = "len"], "publish", {})

\* message arm: the identifier is split and its key decoded
DecodeStmt(n) ==
    /\ nodes[n].pc = "select"
    /\ \E peer_id \in nodes[n].all_peers, topic \in Topics :
        \E data \in InboundData(topic) :
        \E id \in InboundIds(n, data) :
          /\ (topic = "transaction" /\ IdKind(id) = "ok") =>
                 /\ Appended(nodes[n]) < MaxTx
                 /\ ~verify(id.public_key_bytes, data, id.signature)
                        => InvalidAppended(nodes[n]) < MaxInvalid
          /\ IF id.len < 32
             THEN Ran(n, Panic(nodes[n], "split_at"), "decode", {})
             ELSE IF ~decode_ok(id.public_key_bytes)
             THEN Ran(n, Panic(nodes[n], "decode"), "decode", {})
             ELSE Ran(n, [nodes[n] EXCEPT
                             !.event = [arm |-> "message", topic |-> topic,
                                        peer_id |-> peer_id, id |-> id, data |-> data],
                             !.pc = IF topic = "vote" THEN "vote_verify" ELSE "push"],
                      "decode", {})

\* message arm: if public_key.verify(&message.data, &signature)
VoteVerifyStmt(n) ==
    /\ nodes[n].pc = "vote_verify"
    /\ LET e == nodes[n].event
       IN Ran(n, IF verify(e.id.public_key_bytes, e.data, e.id.signature)
                 THEN [nodes[n] EXCEPT !.pc = "insert"]
                 ELSE Done(nodes[n]),
              "verify", {})

\* message arm: voters.clone().lock().unwrap().insert(peer_id);
InsertStmt(n) ==
    /\ nodes[n].pc = "insert"
    /\ Ran(n, Done([nodes[n] EXCEPT !.voters = @ \cup {nodes[n].event.peer_id}]),
           "insert", {"voters"})

\* message arm: mempool.lock().unwrap().push(transaction);
MessagePush(n) ==
    /\ nodes[n].pc = "push"
    /\ LET e == nodes[n].event
       IN Ran(n, [nodes[n] EXCEPT
                     !.mempool = Append(@, Transaction(e.id.public_key_bytes,
                                                       e.id.signature, e.data)),
                     !.pc = "len"],
              "push", {"mempool"})

\* both arms: if mempool.lock().unwrap().len() == 10
LenTest(n) ==
    /\ nodes[n].pc = "len"
    /\ Ran(n, IF batch_full(nodes[n].mempool)
              THEN [nodes[n] EXCEPT !.validations = Append(@, nodes[n].block_height),
                                    !.i = 1, !.correct = 0, !.pc = "verify"]
              ELSE IF nodes[n].event.arm = "message"
              THEN [nodes[n] EXCEPT !.pc = "print"]
              ELSE Done(nodes[n]),
           "len", {"mempool"})

\* both arms: one turn of `for transaction in mempool.lock().unwrap().iter()`:
\* transaction.public_key.verify(..), with the guard of the iterator expression alive
VerifyStmt(n) ==
    /\ nodes[n].pc = "verify"
    /\ LET st == nodes[n]
           is_valid == IsValid(st.mempool[st.i])
           counted == [st EXCEPT !.correct = IF is_valid THEN @ + 1 ELSE @]
       IN Ran(n, IF st.i < Len(st.mempool)
                 THEN [counted EXCEPT !.i = @ + 1]
                 ELSE [counted EXCEPT !.i = 0, !.pc = "vote"],
              "verify", {"mempool"})

\* both arms: if correct_transaction_num == 10 { gossipsub.publish(vote_topic, ..) }
VoteStmt(n) ==
    /\ nodes[n].pc = "vote"
    /\ LET st == nodes[n]
           voted == IF st.correct = 10
                    THEN [st EXCEPT !.votes_cast =
                               Append(@, vote_message(st.block_height, n))]
                    ELSE st
           after == [voted EXCEPT !.correct = 0]
       IN Ran(n, IF st.event.arm = "message" THEN [after EXCEPT !.pc = "print"]
                 ELSE Done(after),
              IF st.correct = 10 THEN "publish" ELSE "none", {})

\* message arm: println!("{mempool:?}"): the Debug of a Mutex locks it and
\* writes its contents while the guard is alive
PrintStmt(n) ==
    /\ nodes[n].pc = "print"
    /\ Ran(n, Done(nodes[n]), "println", {"mempool"})

\* the arms that touch neither mutex: mdns, NewListenAddr, `_`
OtherEvent(n) ==
    /\ nodes[n].pc = "select"
    /\ Ran(n, Done(nodes[n]), "println", {})

NextLocks ==
    \/ \E n \in DOMAIN nodes : QuorumTest(n)
    \/ \E n \in DOMAIN nodes : DrainStmt(n)
    \/ \E n \in DOMAIN nodes : WriteStmt(n)
    \/ \E n \in DOMAIN nodes : ClearStmt(n)
    \/ \E n \in DOMAIN nodes : StdinPush(n)
    \/ \E n \in DOMAIN nodes : PublishStmt(n)
    \/ \E n \in DOMAIN nodes : DecodeStmt(n)
    \/ \E n \in DOMAIN nodes : VoteVerifyStmt(n)
    \/ \E n \in DOMAIN nodes : InsertStmt(n)
    \/ \E n \in DOMAIN nodes : MessagePush(n)
    \/ \E n \in DOMAIN nodes : LenTest(n)
    \/ \E n \in DOMAIN nodes : VerifyStmt(n)
    \/ \E n \in DOMAIN nodes : VoteStmt(n)
    \/ \E n \in DOMAIN nodes : PrintStmt(n)
    \/ \E n \in DOMAIN nodes : OtherEvent(n)

SpecLocks == InitLocks /\ [][NextLocks]_vars

(***************************************************************************)
(* Properties                                                              *)
(*                                                                         *)
(* The properties state their conditions on the node's fields themselves   *)
(* (not through the operators of the handlers), so that they constrain the *)
(* handlers rather than repeat them.                                       *)
(***************************************************************************)
\* size(VoterTracker) == knownPeerCount > 0
QuorumReached(st) ==
    /\ Cardinality(st.voters) = Cardinality(st.all_peers)
    /\ Cardinality(st.all_peers) > 0

\* the signature of a buffered transaction is the one its key gives its payload
SignatureVerifies(transaction) ==
    transaction.signature =
        [signer |-> transaction.public_key.owner, msg |-> transaction.data]

\* the step leaves mempool, VoterTracker and height of node n as they were
KeepsRoundState(n) ==
    /\ nodes'[n].mempool = nodes[n].mempool
    /\ nodes'[n].voters = nodes[n].voters
    /\ nodes'[n].block_height = nodes[n].block_height

\* the step completes a finalization at node n: it writes a block
WritesBlock(n) == nodes'[n].blocks # nodes[n].blocks

\* C1: the mempool is drained only when it holds at least BATCH_SIZE entries,
\* and a loop head that finds the quorum reached with fewer than BATCH_SIZE
\* entries skips the finalization: the node does not crash, and mempool,
\* VoterTracker and height stay as they were.
C1_GuardedDrain ==
    [][\A n \in DOMAIN nodes :
          /\ Len(nodes'[n].mempool) < Len(nodes[n].mempool)
                 => Len(nodes[n].mempool) >= BATCH_SIZE
          /\ ( /\ nodes[n].pc = "check"
               /\ QuorumReached(nodes[n])
               /\ Len(nodes[n].mempool) < BATCH_SIZE )
                 => /\ nodes'[n].pc # "panicked"
                    /\ KeepsRoundState(n)]_vars

\* C2: at the loop head the node finalizes if and only if
\* size(VoterTracker) == knownPeerCount > 0, and every finalization raises
\* height by exactly 1 and leaves VoterTracker empty.
C2_FinalizesIffQuorum ==
    [][\A n \in DOMAIN nodes :
          /\ nodes[n].pc = "check" => (WritesBlock(n) <=> QuorumReached(nodes[n]))
          /\ WritesBlock(n) => /\ nodes[n].pc = "check"
                               /\ nodes'[n].block_height = nodes[n].block_height + 1
                               /\ nodes'[n].voters = {}]_vars

\* C3: a step hands a vote to publish exactly when it appends a transaction
\* that brings the mempool to BATCH_SIZE entries (from stdin or from an
\* inbound transaction message) and all of them verify; the vote carries the
\* node's height and its own peer id; an invalid entry suppresses the vote,
\* and no other step publishes a vote.
C3_VoteIffBatchValid ==
    [][\A n \in DOMAIN nodes :
          LET st == nodes[n]
              st2 == nodes'[n]
              triggered == /\ Len(st2.mempool) = Len(st.mempool) + 1
                           /\ Len(st2.mempool) = BATCH_SIZE
              all_valid == \A i \in 1..Len(st2.mempool) : SignatureVerifies(st2.mempool[i])
              vote == [height |-> st.block_height, peer |-> n]
          IN /\ (triggered /\ all_valid) => st2.votes_cast = Append(st.votes_cast, vote)
             /\ ~(triggered /\ all_valid) => st2.votes_cast = st.votes_cast
             /\ (last'.node = n /\ last'.ev \in {"stdin", "message"})
                    => /\ last'.validated <=> triggered
                       /\ \A i \in 1..Len(last'.published) :
                             last'.published[i].topic = "vote"
                                => /\ triggered /\ all_valid
                                   /\ last'.published[i].data = vote]_vars

\* an inbound transaction completed a batch of valid transactions and the vote
\* went out
C3_Witness ==
    /\ last.ev = "message" /\ last.topic = "transaction" /\ last.validated
    /\ \E i \in 1..Len(last.published) : last.published[i].topic = "vote"
    /\ Len(nodes[last.node].votes_cast) = 1

\* C4: an inbound message whose identifier is shorter than 32 bytes, or whose
\* first 32 bytes decode to no public key, is dropped: the node does not
\* crash, and mempool, VoterTracker and height stay as they were.
C4_MalformedIdDropped ==
    [][\A n \in DOMAIN nodes :
          ( /\ last'.node = n
            /\ last'.ev = "message"
            /\ last'.id_kind \in {"short", "badkey"} )
              => /\ nodes'[n].pc # "panicked"
                 /\ KeepsRoundState(n)]_vars

\* C5: in every reachable state the VoterTracker of a node holds no more
\* members than the node has known peers.
C5_VotersWithinPeers ==
    \A n \in DOMAIN nodes :
        Cardinality(nodes[n].voters) <= Cardinality(nodes[n].all_peers)

\* a recorded voter has left, and a peer that has not voted is still known
C5_Witness ==
    \E n \in DOMAIN nodes :
        /\ nodes[n].voters \ nodes[n].all_peers # {}
        /\ nodes[n].all_peers \ nodes[n].voters # {}

\* everything typed, everything delivered, every node waiting
Quiescent ==
    /\ \A n \in DOMAIN nodes : stdin_left[n] = 0 /\ nodes[n].pc # "check"
    /\ \A c \in DOMAIN net : \A t \in Topics : net[c][t] = EmptyBag

\* C6: two nodes, each the other's only peer, each typing BATCH_SIZE valid
\* lines: under any delivery order no node crashes, each node casts one vote,
\* writes block_1 and reaches height 2, and none is left at height 1.
C6_TwoNodeRound ==
    \A n \in DOMAIN nodes :
        /\ nodes[n].pc # "panicked"
        /\ Len(nodes[n].votes_cast) <= 1
        /\ nodes[n].block_height <= 2
        /\ Quiescent => /\ Len(nodes[n].votes_cast) = 1
                        /\ nodes[n].block_height = 2
                        /\ DOMAIN nodes[n].blocks = {1}

\* C7: a finalization removes exactly the ten oldest entries: the block
\* written for the height is the first ten entries of the mempool in
\* insertion order, and the mempool afterwards is the rest, in order.
C7_DrainsOldestTen ==
    [][\A n \in DOMAIN nodes :
          (last'.node = n /\ last'.ev = "check" /\ last'.finalized)
             => LET before == nodes[n].mempool
                    after == nodes'[n].mempool
                    block == nodes'[n].blocks[nodes[n].block_height]
                IN /\ Len(before) >= BATCH_SIZE
                   /\ block = [i \in 1..BATCH_SIZE |-> before[i]]
                   /\ after = [i \in 1..(Len(before) - BATCH_SIZE) |->
                                   before[i + BATCH_SIZE]]]_vars

\* a finalization took a batch that held the invalid transaction and left
\* later entries in the mempool
C7_Witness ==
    /\ last.ev = "check" /\ last.finalized
    /\ nodes[last.node].mempool # << >>
    /\ \E i \in 1..BATCH_SIZE :
          ~SignatureVerifies(nodes[last.node].blocks[nodes[last.node].block_height - 1][i])

\* C8: between two consecutive drains (each ends a height) the batch
\* validation runs at most once, so at most one vote is cast per height.
C8_OneValidationPerHeight ==
    \A n \in DOMAIN nodes :
        /\ \A i, j \in 1..Len(nodes[n].validations) :
              i # j => nodes[n].validations[i] # nodes[n].validations[j]
        /\ \A i, j \in 1..Len(nodes[n].votes_cast) :
              i # j => nodes[n].votes_cast[i].height # nodes[n].votes_cast[j].height

\* the validation ran, and a vote was cast, in each of two rounds
C8_Witness ==
    \E n \in DOMAIN nodes :
        /\ Len(nodes[n].validations) = 2
        /\ Len(nodes[n].votes_cast) = 2
        /\ nodes[n].block_height = 2

\* C9: while the node knows no peer, no step finalizes: height and the
\* written blocks stay as they are, nothing is drained from the mempool and
\* the node does not crash.
C9_NoPeersNoFinalization ==
    [][\A n \in DOMAIN nodes :
          Cardinality(nodes[n].all_peers) = 0
             => /\ nodes'[n].block_height = nodes[n].block_height
                /\ nodes'[n].blocks = nodes[n].blocks
                /\ Len(nodes'[n].mempool) >= Len(nodes[n].mempool)
                /\ SubSeq(nodes'[n].mempool, 1, Len(nodes[n].mempool)) = nodes[n].mempool
                /\ nodes'[n].pc # "panicked"
                /\ (nodes[n].pc = "check" => nodes'[n].mempool = nodes[n].mempool)]_vars

\* a loop head passed with a full batch buffered, no voter and no peer
C9_Witness ==
    /\ last.ev = "check"
    /\ nodes[last.node].all_peers = {}
    /\ nodes[last.node].voters = {}
    /\ Len(nodes[last.node].mempool) >= BATCH_SIZE
    /\ nodes[last.node].block_height = 1

\* C10: a vote message whose signature does not verify against the key of
\* its identifier changes neither the VoterTracker nor mempool nor height.
C10_TamperedVoteIgnored ==
    [][\A n \in DOMAIN nodes :
          ( /\ last'.node = n
            /\ last'.ev = "message"
            /\ last'.topic = "vote"
            /\ last'.id_kind = "ok"
            /\ ~last'.sig_ok )
              => KeepsRoundState(n)]_vars

\* a tampered vote arrived from a peer that has not voted
C10_Witness ==
    /\ last.ev = "message" /\ last.topic = "vote"
    /\ last.id_kind = "ok" /\ ~last.sig_ok
    /\ last.peer \notin nodes[last.node].voters
    /\ nodes[last.node].pc = "check"

\* C11: height starts at 1 and never decreases; a step changes it only when
\* it is a finalization at the loop head (a block is written), and then by
\* exactly +1; local input, inbound transaction and vote messages, peer
\* discovered and expired, listen-address and connection events leave it as
\* it is.
C11_HeightFrame ==
    /\ \A n \in DOMAIN nodes : nodes[n].block_height = 1
    /\ [][\A n \in DOMAIN nodes :
            /\ nodes'[n].block_height >= nodes[n].block_height
            /\ nodes'[n].block_height # nodes[n].block_height
                   => /\ nodes[n].pc = "check"
                      /\ last'.node = n /\ last'.ev = "check"
                      /\ WritesBlock(n)
                      /\ nodes'[n].block_height = nodes[n].block_height + 1
            /\ (last'.node = n /\ last'.ev # "check")
                   => nodes'[n].block_height = nodes[n].block_height
            /\ WritesBlock(n)
                   => nodes'[n].block_height = nodes[n].block_height + 1]_vars

\* the second round of a node has just completed
C11_Witness ==
    /\ last.ev = "check" /\ last.finalized
    /\ nodes[last.node].block_height = 3

\* C12: at a running node the heights with a written block are exactly
\* 1 .. height-1, each block holds exactly BATCH_SIZE transaction records,
\* and a step that writes a block writes the one of the current height, which
\* did not exist; a written block is never changed afterwards.
C12_BlocksUpToHeight ==
    /\ [](\A n \in DOMAIN nodes :
             nodes[n].pc # "panicked"
                => /\ DOMAIN nodes[n].blocks = 1..(nodes[n].block_height - 1)
                   /\ \A h \in DOMAIN nodes[n].blocks :
                          Len(nodes[n].blocks[h]) = BATCH_SIZE)
    /\ [][\A n \in DOMAIN nodes :
            /\ \A h \in DOMAIN nodes[n].blocks :
                   /\ h \in DOMAIN nodes'[n].blocks
                   /\ nodes'[n].blocks[h] = nodes[n].blocks[h]
            /\ WritesBlock(n)
                   => /\ nodes[n].block_height \notin DOMAIN nodes[n].blocks
                      /\ DOMAIN nodes'[n].blocks =
                             DOMAIN nodes[n].blocks \cup {nodes[n].block_height}]_vars

\* two blocks were written, with different contents
C12_Witness ==
    \E n \in DOMAIN nodes :
        /\ nodes[n].pc # "panicked"
        /\ DOMAIN nodes[n].blocks = {1, 2}
        /\ nodes[n].blocks[1] # nodes[n].blocks[2]

\* C13: a local line whose publication the substrate refuses is still
\* appended to the mempool (exactly one entry, signed with the node's key),
\* the batch validation still runs exactly when the resulting length is
\* BATCH_SIZE, and the node goes on to the next loop head; and a step whose
\* vote the substrate refuses leaves the node running, with VoterTracker and
\* height as they were and the mempool as the append left it.
C13_PublishFailureTolerated ==
    [][\A n \in DOMAIN nodes :
          LET st == nodes[n]
              st2 == nodes'[n]
              vote_refused == /\ Len(st2.votes_cast) = Len(st.votes_cast) + 1
                              /\ \A i \in 1..Len(last'.published) :
                                     last'.published[i].topic # "vote"
          IN /\ (last'.node = n /\ last'.ev = "stdin" /\ ~last'.pub_ok)
                    => /\ Len(st2.mempool) = Len(st.mempool) + 1
                       /\ SubSeq(st2.mempool, 1, Len(st.mempool)) = st.mempool
                       /\ st2.mempool[Len(st2.mempool)].public_key = [owner |-> n]
                       /\ SignatureVerifies(st2.mempool[Len(st2.mempool)])
                       /\ last'.validated <=> (Len(st2.mempool) = BATCH_SIZE)
                       /\ st2.pc = "check"
                       /\ st2.voters = st.voters
                       /\ st2.block_height = st.block_height
             /\ (last'.node = n /\ vote_refused)
                    => /\ st2.pc = "check"
                       /\ st2.voters = st.voters
                       /\ st2.block_height = st.block_height
                       /\ Len(st2.mempool) = Len(st.mempool) + 1
                       /\ SubSeq(st2.mempool, 1, Len(st.mempool)) = st.mempool]_vars

\* the tenth local line: both the transaction and the vote were refused
C13_Witness ==
    /\ last.ev = "stdin" /\ ~last.pub_ok /\ last.validated
    /\ last.published = << >>
    /\ Len(nodes[last.node].votes_cast) = 1
    /\ nodes[last.node].block_height = 1
    /\ nodes[last.node].pc = "check"

\* C14: a finalization whose block is not written ends the node: at a loop
\* head that finds the quorum reached with BATCH_SIZE entries to drain, either
\* the block of the height is written or the node aborts, and in the aborted
\* state height is not incremented, VoterTracker is not cleared and no block
\* of the height exists.
C14_WriteFailureFatal ==
    [][\A n \in DOMAIN nodes :
          ( /\ nodes[n].pc = "check"
            /\ last'.node = n
            /\ QuorumReached(nodes[n])
            /\ Len(nodes[n].mempool) >= BATCH_SIZE
            /\ ~WritesBlock(n) )
              => /\ nodes'[n].pc = "panicked"
                 /\ nodes'[n].block_height = nodes[n].block_height
                 /\ nodes'[n].voters = nodes[n].voters
                 /\ nodes'[n].voters # {}
                 /\ nodes'[n].blocks = nodes[n].blocks]_vars

\* the write of the second block failed
C14_Witness ==
    \E n \in DOMAIN nodes :
        /\ nodes[n].pc = "panicked"
        /\ nodes[n].panic = "write"
        /\ nodes[n].block_height = 2
        /\ DOMAIN nodes[n].blocks = {1}

\* C15: an inbound vote whose payload declares a height other than the
\* receiving node's current height is rejected: it adds nobody to the node's
\* VoterTracker, so the votes behind a finalization at height h were all cast
\* for height h.
C15_VoteBoundToHeight ==
    [][\A n \in DOMAIN nodes :
          ( /\ last'.node = n
            /\ last'.ev = "message"
            /\ last'.topic = "vote"
            /\ last'.height # nodes[n].block_height )
              => nodes'[n].voters = nodes[n].voters]_vars

\* C16: the peer an inbound vote adds to the VoterTracker is the peer that
\* authored the vote, whichever peer delivered it: a peer that only relays
\* the vote is not added, and a valid vote adds its author.
C16_VoterIsAuthor ==
    [][\A n \in DOMAIN nodes :
          ( /\ last'.node = n
            /\ last'.ev = "message"
            /\ last'.topic = "vote" )
              => /\ nodes'[n].voters \ nodes[n].voters \subseteq {last'.author}
                 /\ (last'.id_kind = "ok" /\ last'.sig_ok)
                        => last'.author \in nodes'[n].voters]_vars

\* C17: the quorum is polled at the loop head. A running node whose
\* VoterTracker has reached size(VoterTracker) == knownPeerCount > 0 is at the
\* loop head: no local input and no network event is processed from such a
\* state, the node's next step is the loop head, and that step runs the
\* finalization (it writes the block, unless the finalization aborts the
\* node). A finalization happens only at the loop head, one per iteration:
\* it raises height by one and leaves the node waiting for an event.
C17_PolledAtLoopHead ==
    /\ [](\A n \in DOMAIN nodes :
             (QuorumReached(nodes[n]) /\ nodes[n].pc # "panicked")
                => nodes[n].pc = "check")
    /\ [][\A n \in DOMAIN nodes :
            /\ (last'.node = n /\ last'.ev # "check")
                   => ~QuorumReached(nodes[n])
            /\ (last'.node = n /\ QuorumReached(nodes[n]))
                   => /\ last'.ev = "check"
                      /\ WritesBlock(n) \/ nodes'[n].pc = "panicked"
            /\ WritesBlock(n)
                   => /\ nodes[n].pc = "check"
                      /\ nodes'[n].pc = "select"
                      /\ nodes'[n].block_height = nodes[n].block_height + 1
                      /\ ~QuorumReached(nodes'[n])]_vars

\* the vote of the last peer has just been recorded, with two batches buffered
C17_Witness ==
    /\ last.ev = "message" /\ last.topic = "vote"
    /\ QuorumReached(nodes[last.node])
    /\ Cardinality(nodes[last.node].all_peers) = 2
    /\ Len(nodes[last.node].mempool) = 2 * BATCH_SIZE
    /\ nodes[last.node].pc = "check"

\* block_1, ..., block_{height-1} in height order, followed by the mempool
RECURSIVE BlocksThenMempool(_, _)
BlocksThenMempool(st, h) ==
    IF h >= st.block_height THEN st.mempool
    ELSE st.blocks[h] \o BlocksThenMempool(st, h + 1)

\* C19: the written blocks in height order followed by the mempool are the
\* sequence of the transactions the node has appended, in append order: a
\* step of a running node either leaves that sequence as it is or appends
\* one transaction at its end, and it appends one exactly when the step is a
\* local line or an inbound transaction message whose identifier decodes.
C19_Conservation ==
    [][\A n \in DOMAIN nodes :
          nodes'[n].pc # "panicked"
             => LET before == BlocksThenMempool(nodes[n], 1)
                    after == BlocksThenMempool(nodes'[n], 1)
                    appends == /\ last'.node = n
                               /\ \/ last'.ev = "stdin"
                                  \/ /\ last'.ev = "message"
                                     /\ last'.topic = "transaction"
                IN /\ appends => /\ Len(after) = Len(before) + 1
                                 /\ SubSeq(after, 1, Len(before)) = before
                   /\ ~appends => after = before]_vars

\* a finalization split the appended transactions between a block and the
\* mempool, the invalid one staying in the mempool
C19_Witness ==
    /\ last.ev = "check" /\ last.finalized
    /\ nodes[last.node].block_height = 2
    /\ Len(nodes[last.node].mempool) >= 2
    /\ \E i \in 1..Len(nodes[last.node].mempool) :
          ~SignatureVerifies(nodes[last.node].mempool[i])

\* the heights a node of SpecNet can reach
RoundHeights == 1..((Cardinality(NodeIds) * MaxLocal) \div BATCH_SIZE + 1)

\* every node is running at height h with a batch in its mempool
RoundReady(h) ==
    \A n \in DOMAIN nodes :
        /\ nodes[n].pc # "panicked"
        /\ nodes[n].block_height = h
        /\ Len(nodes[n].mempool) >= BATCH_SIZE

\* every node has cast a vote for height h and has finalized it
RoundDone(h) ==
    \A n \in DOMAIN nodes :
        /\ \E i \in 1..Len(nodes[n].votes_cast) : nodes[n].votes_cast[i].height = h
        /\ nodes[n].block_height > h

\* C20: with two nodes that stay connected, valid transactions only and fair
\* delivery, whenever every node holds at least BATCH_SIZE transactions at
\* height h, every node eventually casts a vote for h and finalizes h.
C20_RoundsRepeat ==
    \A h \in RoundHeights : RoundReady(h) ~> RoundDone(h)

\* C18: no signature verification and no I/O call (publish, file write,
\* print) runs while the mutex of the mempool is locked, and no statement
\* runs with the mutex of the mempool and the mutex of the VoterTracker both
\* locked.
C18_NoLockAcrossVerifyOrIO ==
    /\ last.ev \in {"verify", "publish", "fs_write", "println"}
          => "mempool" \notin last.locks
    /\ ~({"mempool", "voters"} \subseteq last.locks)

====
